---- MODULE Spec2Model ----
(***************************************************************************)
(* Model of the storage-policy keywords                                    *)
(* (robot/resources/lib/python_keywords/storage_policy.py) and of the      *)
(* session-token test (pytest_tests/testsuites/session_token/              *)
(* test_object_session_token.py).                                          *)
(*                                                                         *)
(* The keywords scan the network map with direct HEAD requests.  What a    *)
(* node answers to a direct HEAD is the environment of the keywords: it is *)
(* the variable head, one outcome per (object id, node).                   *)
(***************************************************************************)
EXTENDS Integers, Sequences, FiniteSets, TLC

VARIABLES
  head,         \* answers of the nodes to a direct HEAD: the objects they hold
  cur,          \* the storage-policy keyword in progress
  last_with,    \* latest list returned by get_nodes_with_object (no skip_nodes)
  last_simple,  \* latest count returned by get_simple_object_copies
  netmap_dict,  \* NEOFS_NETMAP_DICT: the UN-LOCODE of every node
  test,         \* locals and position of test_object_session_token
  sessions,     \* per node: whether it has a record of the session token
  token,        \* the session token
  now,          \* the current time (epoch)
  container,    \* the container created by the test
  replies       \* answers to the requests that presented the session token

vars == <<head, cur, last_with, last_simple, netmap_dict, test, sessions,
          token, now, container, replies>>

sys_vars == <<netmap_dict, test, sessions, token, now, container, replies>>

scan_vars == <<cur, last_with, last_simple>>

-----------------------------------------------------------------------------
(* Bounds *)

\* Number of storage nodes in the network map.
NumNodes == 3

\* Longest skip_nodes list passed to get_nodes_with_object.
MaxSkip == 2

-----------------------------------------------------------------------------
(* The network map and the outcomes of a direct HEAD *)

Nodes == 1..NumNodes

\* An endpoint that is not part of the network map (may appear in skip_nodes).
ForeignNode == 0

\* NEOFS_NETMAP: the list of node endpoints, in map order.
NEOFS_NETMAP == [i \in 1..NumNodes |-> i]

\* "oid" and "oid_delete" are the objects the test writes, "oid_session" the
\* one it writes with the session token, "last" the last part of a complex
\* object.
Oids == {"oid", "last", "oid_delete", "oid_session"}

\* What neofs_verbs.head_object does for one (oid, endpoint):
\*   "Header"   returns a non-empty response
\*   "Empty"    returns a response that is empty (falsy, but not None)
\*   "None"     returns None
\*   "NotFound" raises an error that matches OBJECT_NOT_FOUND
\*   "Error"    raises any other Exception
Outcomes == {"Header", "Empty", "None", "NotFound", "Error"}

OBJECT_NOT_FOUND == "NotFound"

head_object(oid, node) == head[oid][node]

Raises(outcome) == outcome \in {"NotFound", "Error"}

error_matches_status(err, status) == err = status

\* Python truthiness of a returned response.
Truthy(response) == response = "Header"

ToSet(s) == {s[k] : k \in 1..Len(s)}

RECURSIVE Filter(_, _)
\* [x for x in s if x not in drop]
Filter(s, drop) ==
  IF s = <<>> THEN <<>>
  ELSE IF Head(s) \in drop THEN Filter(Tail(s), drop)
       ELSE <<Head(s)>> \o Filter(Tail(s), drop)

-----------------------------------------------------------------------------
(* The decisions of the three scan loops *)

\* get_simple_object_copies: `if response:` counts the node.
Mut_simple_counts_negated(response) == ~Truthy(response)
simple_counts(response) == Truthy(response)

\* get_simple_object_copies / get_nodes_with_object: `except Exception: continue`.
Mut_on_exception_abort == "raise"
on_exception == "continue"

\* get_nodes_with_object: `if res is not None:` lists the node.
with_lists(res) == res # "None"

\* get_nodes_without_object: `if res is None:` lists the node.
Mut_without_lists_falsy(res) == ~Truthy(res)
without_lists(res) == res = "None"

\* get_nodes_without_object: the except branch.
without_except(err) ==
  IF error_matches_status(err, OBJECT_NOT_FOUND) THEN "append" ELSE "raise"

\* skip_nodes: None, or a list of endpoints (only membership is used).
NoSkip == [none |-> TRUE, nodes |-> {}]

SkipLists ==
  {NoSkip} \cup
  {[none |-> FALSE, nodes |-> S] :
     S \in {T \in SUBSET (Nodes \cup {ForeignNode}) : Cardinality(T) <= MaxSkip}}

\* `if skip_nodes:` is false for None and for an empty list.
Mut_nodes_to_search_all(skip_nodes) == NEOFS_NETMAP
nodes_to_search(skip_nodes) ==
  IF ~skip_nodes.none /\ skip_nodes.nodes # {}
  THEN Filter(NEOFS_NETMAP, skip_nodes.nodes)
  ELSE NEOFS_NETMAP

\* get_complex_object_copies: the address handed to the simple scan.
Mut_complex_scans_own_id(oid, last_oid) == oid
complex_scan_oid(oid, last_oid) == last_oid

\* get_object_copies: which path a complexity tag takes.
copies_path(complexity) == IF complexity = "Simple" THEN "simple" ELSE "complex"

ComplexityTags == {"Simple", "Complex", "simple"}

-----------------------------------------------------------------------------
(* The call in progress *)

Idle ==
  [call |-> "none", complexity |-> "", path |-> "", oid |-> "oid",
   last_oid |-> "", skip |-> NoSkip, loop |-> "", scan_oid |-> "oid",
   search |-> <<>>, i |-> 0, copies |-> 0, nodes_list |-> <<>>,
   probes |-> <<>>, status |-> "idle", exc |-> ""]

\* A call that has reached its loop over `search`, probing `scan_oid`.
Enter(call, oid, loop, scan_oid, search) ==
  [Idle EXCEPT !.call = call, !.oid = oid, !.loop = loop,
               !.scan_oid = scan_oid, !.search = search,
               !.status = "running"]

CanCall == cur.status # "running"

Unset == [set |-> FALSE, oid |-> "oid", copies |-> 0, nodes_list |-> <<>>]

get_simple_object_copies(oid) ==
  /\ CanCall
  /\ cur' = Enter("get_simple_object_copies", oid, "simple", oid, NEOFS_NETMAP)
  /\ UNCHANGED <<head, last_with, last_simple>>
  /\ UNCHANGED sys_vars

get_nodes_with_object(oid, skip_nodes) ==
  /\ CanCall
  /\ cur' = [Enter("get_nodes_with_object", oid, "with", oid,
                   nodes_to_search(skip_nodes)) EXCEPT !.skip = skip_nodes]
  /\ UNCHANGED <<head, last_with, last_simple>>
  /\ UNCHANGED sys_vars

get_nodes_without_object(oid) ==
  /\ CanCall
  /\ cur' = Enter("get_nodes_without_object", oid, "without", oid, NEOFS_NETMAP)
  /\ UNCHANGED <<head, last_with, last_simple>>
  /\ UNCHANGED sys_vars

\* complex_object_actions.get_last_object answers with the id of the last
\* part, or with nothing; `assert last_oid` stops the call in the second case.
get_complex_object_copies(oid) ==
  /\ CanCall
  /\ \E last_oid \in {"", "last"} :
       cur' = IF last_oid = ""
              THEN [Idle EXCEPT !.call = "get_complex_object_copies",
                                !.oid = oid, !.path = "complex",
                                !.status = "raised", !.exc = "AssertionError"]
              ELSE [Enter("get_complex_object_copies", oid, "simple",
                          complex_scan_oid(oid, last_oid), NEOFS_NETMAP)
                      EXCEPT !.path = "complex", !.last_oid = last_oid]
  /\ UNCHANGED <<head, last_with, last_simple>>
  /\ UNCHANGED sys_vars

get_object_copies(complexity, oid) ==
  /\ CanCall
  /\ \E last_oid \in {"", "last"} :
       cur' = IF copies_path(complexity) = "simple"
              THEN [Enter("get_object_copies", oid, "simple", oid, NEOFS_NETMAP)
                      EXCEPT !.path = "simple", !.complexity = complexity]
              ELSE IF last_oid = ""
              THEN [Idle EXCEPT !.call = "get_object_copies", !.oid = oid,
                                !.path = "complex", !.complexity = complexity,
                                !.status = "raised", !.exc = "AssertionError"]
              ELSE [Enter("get_object_copies", oid, "simple",
                          complex_scan_oid(oid, last_oid), NEOFS_NETMAP)
                      EXCEPT !.path = "complex", !.complexity = complexity,
                             !.last_oid = last_oid]
  /\ UNCHANGED <<head, last_with, last_simple>>
  /\ UNCHANGED sys_vars

Looping(loop) ==
  /\ cur.status = "running"
  /\ cur.loop = loop
  /\ cur.i < Len(cur.search)

\* One probe: the node and the outcome of its direct HEAD.
NextNode == cur.search[cur.i + 1]
Probed == [cur EXCEPT !.i = @ + 1,
                      !.probes = Append(@, [node |-> NextNode, oid |-> cur.scan_oid])]

\* One iteration of the loop of get_simple_object_copies.
simple_iteration ==
  /\ Looping("simple")
  /\ LET response == head_object(cur.scan_oid, NextNode) IN
       cur' = IF Raises(response)
              THEN IF on_exception = "continue" THEN Probed
                   ELSE [Probed EXCEPT !.status = "raised", !.exc = "Exception"]
              ELSE IF simple_counts(response)
                   THEN [Probed EXCEPT !.copies = @ + 1]
                   ELSE Probed
  /\ UNCHANGED <<head, last_with, last_simple>>
  /\ UNCHANGED sys_vars

\* One iteration of the loop of get_nodes_with_object.
with_iteration ==
  /\ Looping("with")
  /\ LET res == head_object(cur.scan_oid, NextNode) IN
       cur' = IF Raises(res)
              THEN IF on_exception = "continue" THEN Probed
                   ELSE [Probed EXCEPT !.status = "raised", !.exc = "Exception"]
              ELSE IF with_lists(res)
                   THEN [Probed EXCEPT !.nodes_list = Append(@, NextNode)]
                   ELSE Probed
  /\ UNCHANGED <<head, last_with, last_simple>>
  /\ UNCHANGED sys_vars

\* One iteration of the loop of get_nodes_without_object.
without_iteration ==
  /\ Looping("without")
  /\ LET res == head_object(cur.scan_oid, NextNode) IN
       cur' = IF Raises(res)
              THEN IF without_except(res) = "append"
                   THEN [Probed EXCEPT !.nodes_list = Append(@, NextNode)]
                   ELSE [Probed EXCEPT !.status = "raised", !.exc = "Exception"]
              ELSE IF without_lists(res)
                   THEN [Probed EXCEPT !.nodes_list = Append(@, NextNode)]
                   ELSE Probed
  /\ UNCHANGED <<head, last_with, last_simple>>
  /\ UNCHANGED sys_vars

\* The loop is over: `return copies` / `return nodes_list`.  The results of
\* the latest get_simple_object_copies and of the latest get_nodes_with_object
\* without skipped nodes are kept by the caller for comparison.
scan_return ==
  /\ cur.status = "running"
  /\ cur.i = Len(cur.search)
  /\ cur' = [cur EXCEPT !.status = "returned"]
  /\ last_simple' =
       IF cur.call = "get_simple_object_copies"
       THEN [Unset EXCEPT !.set = TRUE, !.oid = cur.oid, !.copies = cur.copies]
       ELSE last_simple
  /\ last_with' =
       IF cur.call = "get_nodes_with_object"
          /\ (cur.skip.none \/ cur.skip.nodes = {})
       THEN [Unset EXCEPT !.set = TRUE, !.oid = cur.oid,
                          !.nodes_list = cur.nodes_list]
       ELSE last_with
  /\ UNCHANGED head
  /\ UNCHANGED sys_vars

-----------------------------------------------------------------------------
(* Strings: a string is a sequence of atoms; an atom is one character, or a
   literal piece of text without whitespace. *)

\* The characters for which Python's str.isspace() holds: the separators of
\* str.split().  A character that cannot be written in a string literal is
\* the atom that names its code point.
Whitespace ==
  {" ", "\t", "\n", "\r", "\f", "U+000B", "U+001C", "U+001D", "U+001E", "U+001F",
   "U+0085", "U+00A0", "U+1680", "U+2000", "U+2001", "U+2002", "U+2003",
   "U+2004", "U+2005", "U+2006", "U+2007", "U+2008", "U+2009", "U+200A",
   "U+2028", "U+2029", "U+202F", "U+205F", "U+3000"}

RECURSIVE SplitFrom(_, _, _)
SplitFrom(s, word, acc) ==
  IF s = <<>> THEN (IF word = <<>> THEN acc ELSE Append(acc, word))
  ELSE IF Head(s) \in Whitespace
       THEN SplitFrom(Tail(s), <<>>, IF word = <<>> THEN acc ELSE Append(acc, word))
       ELSE SplitFrom(Tail(s), Append(word, Head(s)), acc)

\* Python str.split() without arguments.
Split(s) == SplitFrom(s, <<>>, <<>>)

RU_LED == <<"R", "U", " ", "L", "E", "D">>
SPB == <<"S", "P", "B">>

\* The UN-LOCODE values of a development network map.
KnownLocodes ==
  {RU_LED, <<"R", "U", " ", "M", "O", "W">>, <<"S", "E", " ", "S", "T", "O">>}

\* Longest UN-LOCODE drawn character by character.
MaxLocodeLen == 4

LocodeAlphabet == {"R", "U", " ", "\r"}

BoundedLocodes ==
  UNION {[1..n -> LocodeAlphabet] : n \in 0..MaxLocodeLen}

\* test_object_session_token, line 61; "IndexError" when there is no second
\* token.
Mut_locode_first_token(un_locode) ==
  IF un_locode = RU_LED THEN [ok |-> TRUE, locode |-> SPB]
  ELSE IF Len(Split(un_locode)) < 2 THEN [ok |-> FALSE, locode |-> <<>>]
  ELSE [ok |-> TRUE, locode |-> Split(un_locode)[1]]
locode_of(un_locode) ==
  IF un_locode = RU_LED THEN [ok |-> TRUE, locode |-> SPB]
  ELSE IF Len(Split(un_locode)) < 2 THEN [ok |-> FALSE, locode |-> <<>>]
  ELSE [ok |-> TRUE, locode |-> Split(un_locode)[2]]

\* test_object_session_token, lines 62-66: the f-string.
placement_policy_text(un_locode, locode) ==
  <<"REP", " ", "1", " ", "IN", " ", "LOC_">> \o locode \o <<"_PLACE">>
  \o <<" ", "CBF", " ", "1", " ", "SELECT", " ", "1", " ", "FROM", " ", "LOC_">>
  \o locode
  \o <<" ", "AS", " ", "LOC_">> \o locode \o <<"_PLACE">>
  \o <<" ", "FILTER", " ", "\"", "UN-LOCODE", "\"", " ", "EQ", " ", "\"">>
  \o un_locode
  \o <<"\"", " ", "AS", " ", "LOC_">> \o locode

-----------------------------------------------------------------------------
(* The storage network the test drives: placement and session authorization *)

QuotePositions(text) == {k \in 1..Len(text) : text[k] = "\""}

RECURSIVE Ascending(_)
\* The members of a set of numbers, smallest first.
Ascending(S) ==
  IF S = {} THEN <<>>
  ELSE LET m == CHOOSE x \in S : \A y \in S : x <= y
       IN <<m>> \o Ascending(S \ {m})

Number(tok) ==
  IF tok = <<"1">> THEN 1 ELSE IF tok = <<"2">> THEN 2 ELSE 0

\* REP <n> IN <group> CBF <m> SELECT <k> FROM <group> AS <group>
\* FILTER "<attr>" EQ "<value>" AS <group>
ParsePolicy(text) ==
  LET toks == Split(text)
      q == Ascending(QuotePositions(text))
      n == Len(toks)
      shaped == /\ n >= 18
                /\ Len(q) = 4
                /\ toks[1] = <<"REP">> /\ toks[3] = <<"IN">>
                /\ toks[5] = <<"CBF">> /\ toks[7] = <<"SELECT">>
                /\ toks[9] = <<"FROM">> /\ toks[11] = <<"AS">>
                /\ toks[13] = <<"FILTER">> /\ toks[15] = <<"EQ">>
                /\ toks[n - 1] = <<"AS">>
  IN IF ~shaped
     THEN [ok |-> FALSE, rep |-> 0, rep_group |-> <<>>, cbf |-> 0,
           select |-> 0, from_group |-> <<>>, select_alias |-> <<>>,
           filter_attr |-> <<>>, filter_value |-> <<>>, filter_alias |-> <<>>]
     ELSE [ok |-> TRUE, rep |-> Number(toks[2]), rep_group |-> toks[4],
           cbf |-> Number(toks[6]), select |-> Number(toks[8]),
           from_group |-> toks[10], select_alias |-> toks[12],
           filter_attr |-> SubSeq(text, q[1] + 1, q[2] - 1),
           filter_value |-> SubSeq(text, q[3] + 1, q[4] - 1),
           filter_alias |-> toks[n]]

\* Every group that is used is defined.
WellFormed(policy) ==
  /\ policy.ok
  /\ policy.rep_group = policy.select_alias
  /\ policy.from_group = policy.filter_alias

\* The first k members of a sequence.
FirstK(s, k) == SubSeq(s, 1, IF k < Len(s) THEN k ELSE Len(s))

\* Placement Resolver: filter the nodes, select from the pool in node order,
\* keep the first REP of the selection.
Resolve(policy, map) ==
  LET pool == {n \in Nodes : map[n] = policy.filter_value}
      bucket == FirstK(Ascending(pool), policy.select)
      chosen == FirstK(bucket, policy.rep)
  IN IF ~WellFormed(policy) \/ policy.filter_attr # <<"UN-LOCODE">>
        \/ Cardinality(pool) < policy.rep \/ policy.rep < 1
     THEN [ok |-> FALSE, targets |-> {}]
     ELSE [ok |-> TRUE, targets |-> ToSet(chosen)]

Ops == {"PUT", "DELETE", "HEAD"}

SESSION_NOT_FOUND == "SessionNotFound"

NoToken == [issued |-> FALSE, nbf |-> 0, exp |-> 0, ops |-> {}]

\* Session Authorization Guard, rules in order.
Mut_Authorize_record_first(tok, node, op, time) ==
  IF ~sessions[node] THEN "SessionNotFound"
  ELSE IF time < tok.nbf \/ time > tok.exp THEN "Expired"
  ELSE IF op \notin tok.ops THEN "WrongOperation"
  ELSE "Allow"
Authorize(tok, node, op, time) ==
  IF time < tok.nbf \/ time > tok.exp THEN "Expired"
  ELSE IF op \notin tok.ops THEN "WrongOperation"
  ELSE IF ~sessions[node] THEN "SessionNotFound"
  ELSE "Allow"

\* The answer of `node` to a request that presents the session token.
Request(step, node, op) ==
  [step |-> step, node |-> node, op |-> op, time |-> now,
   known |-> sessions[node],
   decision |-> Authorize(token, node, op, now)]

AbsentEverywhere == [n \in Nodes |-> "NotFound"]

\* An accepted PUT: the object is on the nodes the policy resolves to.
Stored(h, oid, targets) ==
  [h EXCEPT ![oid] = [n \in Nodes |-> IF n \in targets THEN "Header" ELSE @[n]]]

\* An accepted DELETE: no node answers for the object any more.
Removed(h, oid) == [h EXCEPT ![oid] = AbsentEverywhere]

-----------------------------------------------------------------------------
(* test_object_session_token *)

\* Latest time of the model.
MaxTime == 3

TestOff ==
  [pc |-> "off", object_size |-> "simple", session_token_node |-> 0,
   container_node |-> 0, noncontainer_node |-> 0, un_locode |-> <<>>,
   locode |-> <<>>, placement_policy |-> <<>>, oid |-> "", oid_delete |-> "",
   exc |-> ""]

NoContainer == [created |-> FALSE, policy |-> ParsePolicy(<<>>), targets |-> {}]

\* random.sample(list(NEOFS_NETMAP_DICT.keys()), 3): three different nodes.
Mut_sample3_with_repeats == Nodes \X Nodes \X Nodes
sample3 ==
  {s \in Nodes \X Nodes \X Nodes : s[1] # s[2] /\ s[1] # s[3] /\ s[2] # s[3]}

At(pc) == test.pc = pc /\ cur.status # "running"

\* "Nodes Settlements", lines 40-48.
nodes_settlements ==
  /\ At("nodes_settlements")
  /\ \E s \in sample3 :
       test' = [test EXCEPT !.pc = "create_session_token",
                            !.session_token_node = s[1],
                            !.container_node = s[2],
                            !.noncontainer_node = s[3]]
  /\ UNCHANGED <<head, netmap_dict, sessions, token, now, container, replies>>
  /\ UNCHANGED scan_vars

\* CreateSessionToken(owner, node): the token is known to that node only.
IssueToken(node, exp, ops) ==
  /\ token' = [issued |-> TRUE, nbf |-> now, exp |-> exp, ops |-> ops]
  /\ sessions' = [n \in Nodes |-> n = node]

\* "Create Session Token", lines 50-57.
create_session_token ==
  /\ At("create_session_token")
  /\ IssueToken(test.session_token_node, MaxTime, {"PUT", "DELETE"})
  /\ test' = [test EXCEPT !.pc = "create_private_container"]
  /\ UNCHANGED <<head, netmap_dict, now, container, replies>>
  /\ UNCHANGED scan_vars

\* "Create Private Container", lines 59-67.
create_private_container ==
  /\ At("create_private_container")
  /\ LET un_locode == netmap_dict[test.container_node]
         l == locode_of(un_locode)
         placement_policy == placement_policy_text(un_locode, l.locode)
         policy == ParsePolicy(placement_policy)
         placed == Resolve(policy, netmap_dict)
     IN IF ~l.ok
        THEN /\ test' = [test EXCEPT !.pc = "error", !.exc = "IndexError",
                                     !.un_locode = un_locode]
             /\ UNCHANGED container
        ELSE IF ~placed.ok
        THEN /\ test' = [test EXCEPT !.pc = "error", !.exc = "create_container",
                                     !.un_locode = un_locode,
                                     !.locode = l.locode,
                                     !.placement_policy = placement_policy]
             /\ UNCHANGED container
        ELSE /\ test' = [test EXCEPT !.pc = "put_objects",
                                     !.un_locode = un_locode,
                                     !.locode = l.locode,
                                     !.placement_policy = placement_policy]
             /\ container' = [created |-> TRUE, policy |-> policy,
                              targets |-> placed.targets]
  /\ UNCHANGED <<head, netmap_dict, sessions, token, now, replies>>
  /\ UNCHANGED scan_vars

\* A put_object without a session either is accepted, and the object is on
\* the placement set and its id is bound, or raises, and the test ends with
\* that exception.
PlainPut(step, oids, bound) ==
  /\ \E accepted \in BOOLEAN :
       IF accepted
       THEN /\ head' = [o \in Oids |->
                         IF o \in oids THEN Stored(head, o, container.targets)[o]
                         ELSE head[o]]
            /\ test' = bound
       ELSE /\ UNCHANGED head
            /\ test' = [test EXCEPT !.pc = "error", !.exc = step]
  /\ UNCHANGED <<netmap_dict, sessions, token, now, container, replies>>
  /\ UNCHANGED scan_vars

\* "Put Objects", lines 70-71: oid = put_object(...).  A complex object is
\* stored with its last part.
put_objects ==
  /\ At("put_objects")
  /\ PlainPut("put_objects",
              IF test.object_size = "complex" THEN {"oid", "last"} ELSE {"oid"},
              [test EXCEPT !.pc = "put_object_oid_delete", !.oid = "oid"])

\* "Put Objects", line 72: oid_delete = put_object(...).
put_object_oid_delete ==
  /\ At("put_object_oid_delete")
  /\ PlainPut("put_object_oid_delete", {"oid_delete"},
              [test EXCEPT !.pc = "granted_put", !.oid_delete = "oid_delete"])

\* A request that must succeed: a denial is an exception and ends the test.
Granted(step, node, op, next_pc, h) ==
  LET r == Request(step, node, op) IN
    /\ replies' = Append(replies, r)
    /\ IF r.decision = "Allow"
       THEN /\ test' = [test EXCEPT !.pc = next_pc]
            /\ head' = h
       ELSE /\ test' = [test EXCEPT !.pc = "failed", !.exc = r.decision]
            /\ UNCHANGED head
    /\ UNCHANGED <<netmap_dict, sessions, token, now, container>>
    /\ UNCHANGED scan_vars

\* pytest.raises(Exception, match=SESSION_NOT_FOUND): anything but a denial
\* with that reason ends the test.
Denied(step, node, op, next_pc, h) ==
  LET r == Request(step, node, op) IN
    /\ replies' = Append(replies, r)
    /\ IF r.decision = SESSION_NOT_FOUND
       THEN /\ test' = [test EXCEPT !.pc = next_pc]
            /\ UNCHANGED head
       ELSE /\ test' = [test EXCEPT !.pc = "failed", !.exc = r.decision]
            /\ head' = IF r.decision = "Allow" THEN h ELSE head
    /\ UNCHANGED <<netmap_dict, sessions, token, now, container>>
    /\ UNCHANGED scan_vars

\* "Node not in container but granted a session token", lines 74-90.
granted_put ==
  /\ At("granted_put")
  /\ Granted("granted_put", test.session_token_node, "PUT", "granted_delete",
             Stored(head, "oid_session", container.targets))

granted_delete ==
  /\ At("granted_delete")
  /\ Granted("granted_delete", test.session_token_node, "DELETE", "container_put",
             Removed(head, "oid_delete"))

\* "Node in container and not granted a session token", lines 92-110.
container_put ==
  /\ At("container_put")
  /\ Denied("container_put", test.container_node, "PUT", "container_delete",
            Stored(head, "oid_session", container.targets))

container_delete ==
  /\ At("container_delete")
  /\ Denied("container_delete", test.container_node, "DELETE", "noncontainer_put",
            Removed(head, "oid"))

\* "Node not in container and not granted a session token", lines 112-130.
noncontainer_put ==
  /\ At("noncontainer_put")
  /\ Denied("noncontainer_put", test.noncontainer_node, "PUT", "noncontainer_delete",
            Stored(head, "oid_session", container.targets))

noncontainer_delete ==
  /\ At("noncontainer_delete")
  /\ Denied("noncontainer_delete", test.noncontainer_node, "DELETE", "passed",
            Removed(head, "oid"))

\* The keywords alone: no test is running.
SystemOff ==
  /\ netmap_dict = [n \in Nodes |-> RU_LED]
  /\ test = TestOff
  /\ sessions = [n \in Nodes |-> FALSE]
  /\ token = NoToken
  /\ now = 0
  /\ container = NoContainer
  /\ replies = <<>>

-----------------------------------------------------------------------------
(* Scans of one simple object *)

Init ==
  /\ head \in {[o \in Oids |-> IF o = "oid" THEN f ELSE AbsentEverywhere] :
                 f \in [Nodes -> Outcomes]}
  /\ cur = Idle
  /\ last_with = Unset
  /\ last_simple = Unset
  /\ SystemOff

Next ==
  \/ get_simple_object_copies("oid")
  \/ \E skip_nodes \in SkipLists : get_nodes_with_object("oid", skip_nodes)
  \/ get_nodes_without_object("oid")
  \/ simple_iteration
  \/ with_iteration
  \/ without_iteration
  \/ scan_return

Spec == Init /\ [][Next]_vars

-----------------------------------------------------------------------------
(* Properties of the scans *)

ProbeOutcome(p) == head[p.oid][p.node]

ProbeNodes == {cur.probes[k].node : k \in 1..Len(cur.probes)}

\* A sequence of nodes that follows map order and names no node twice.
InMapOrder(s) == \A j, k \in 1..Len(s) : j < k => s[j] < s[k]

TolerantScan == cur.call \in {"get_simple_object_copies", "get_nodes_with_object"}

\* C2: in every scan a probe that fails with anything other than not-found
\* aborts the scan.  get_simple_object_copies and get_nodes_with_object
\* catch every Exception of a probe and go on, so this does not hold of them.
C2_Original ==
  \A k \in 1..Len(cur.probes) :
    ProbeOutcome(cur.probes[k]) = "Error" => cur.status = "raised"

\* C3: with no probe failing other than by not-found, the list of
\* get_nodes_with_object (no skip_nodes) and the list of a later
\* get_nodes_without_object are disjoint and together hold every node of the
\* map once.
C3_Partition ==
  (cur.call = "get_nodes_without_object" /\ cur.status = "returned" /\ last_with.set) =>
    /\ ToSet(last_with.nodes_list) \cap ToSet(cur.nodes_list) = {}
    /\ ToSet(last_with.nodes_list) \cup ToSet(cur.nodes_list) = Nodes
    /\ Len(last_with.nodes_list) + Len(cur.nodes_list) = NumNodes

C3_Witness ==
  /\ cur.call = "get_nodes_without_object"
  /\ cur.status = "returned"
  /\ last_with.set
  /\ last_with.nodes_list # <<>>
  /\ cur.nodes_list # <<>>
  /\ \E n \in Nodes : head["oid"][n] = "Empty"
  /\ \E n \in Nodes : head["oid"][n] = "NotFound"

\* C8: get_simple_object_copies and get_nodes_with_object never stop on a
\* probe: whatever the probes answer, the nodes searched are probed once each
\* in map order, the scan is never aborted, every iteration advances, and the
\* scan returns a count in 0..N or a duplicate-free list in map order.
C8_Tolerant ==
  TolerantScan =>
    /\ cur.status \in {"running", "returned"}
    /\ cur.i = Len(cur.probes)
    /\ cur.i <= Len(cur.search)
    /\ \A k \in 1..Len(cur.probes) :
         /\ cur.probes[k].node = cur.search[k]
         /\ cur.probes[k].oid = cur.oid
    /\ InMapOrder(cur.search)
    /\ (cur.skip.none \/ cur.skip.nodes = {}) => cur.search = NEOFS_NETMAP
    /\ cur.status = "returned" =>
         /\ cur.i = Len(cur.search)
         /\ ProbeNodes = ToSet(cur.search)
    /\ cur.copies \in 0..NumNodes
    /\ InMapOrder(cur.nodes_list)
    /\ ToSet(cur.nodes_list) \subseteq Nodes

C8_Witness ==
  /\ cur.call = "get_simple_object_copies"
  /\ cur.status = "returned"
  /\ head["oid"][1] = "Error"
  /\ head["oid"][2] = "NotFound"
  /\ cur.copies >= 1

\* C9 as stated: the count of get_simple_object_copies equals the length of
\* the list of get_nodes_with_object (no skip_nodes) for the same probe
\* outcomes, whatever they are.
C9_Original ==
  (cur.call = "get_simple_object_copies" /\ cur.status = "returned" /\ last_with.set) =>
    cur.copies = Len(last_with.nodes_list)

\* C10: get_nodes_with_object probes no skipped node and lists none; its
\* list is the list of the scan without skip_nodes with the skipped nodes
\* removed; skip_nodes None or empty scans the whole map.
C10_Skip ==
  cur.call = "get_nodes_with_object" =>
    /\ ProbeNodes \cap cur.skip.nodes = {}
    /\ ToSet(cur.nodes_list) \cap cur.skip.nodes = {}
    /\ ToSet(cur.search) = Nodes \ cur.skip.nodes
    /\ (cur.skip.none \/ cur.skip.nodes = {}) => cur.search = NEOFS_NETMAP
    /\ (cur.status = "returned" /\ last_with.set) =>
         cur.nodes_list = Filter(last_with.nodes_list, cur.skip.nodes)

C10_Witness ==
  /\ cur.call = "get_nodes_with_object"
  /\ cur.status = "returned"
  /\ last_with.set
  /\ cur.skip.nodes \cap ToSet(last_with.nodes_list) # {}
  /\ cur.nodes_list # <<>>

-----------------------------------------------------------------------------
(* Copy counts of a complex object: "oid" is the logical object, "last" its
   last part.  A node answers a direct HEAD of the logical id the same way
   on every node; its answers for the last part are free. *)

InitCopies ==
  /\ head \in {[o \in Oids |-> IF o = "last" THEN f
                               ELSE IF o = "oid" THEN [n \in Nodes |-> own]
                               ELSE AbsentEverywhere] :
                 f \in [Nodes -> Outcomes], own \in {"Header", "NotFound"}}
  /\ cur = Idle
  /\ last_with = Unset
  /\ last_simple = Unset
  /\ SystemOff

NextCopies ==
  \/ \E oid \in Oids : get_simple_object_copies(oid)
  \/ get_complex_object_copies("oid")
  \/ \E complexity \in ComplexityTags : get_object_copies(complexity, "oid")
  \/ simple_iteration
  \/ scan_return

SpecCopies == InitCopies /\ [][NextCopies]_vars

\* C4: get_object_copies takes the simple path exactly when the tag is
\* "Simple"; on the complex path the last part is resolved before any probe,
\* every probe is addressed to the last part and none to the logical id, and
\* the count returned is the count get_simple_object_copies returns for the
\* last part.
C4_LastPart ==
  /\ cur.call = "get_object_copies" =>
       (cur.path = "simple" <=> cur.complexity = "Simple")
  /\ cur.call = "get_complex_object_copies" => cur.path = "complex"
  /\ (cur.path = "complex" /\ cur.status # "raised") =>
       /\ cur.last_oid = "last"
       /\ cur.scan_oid = cur.last_oid
       /\ \A k \in 1..Len(cur.probes) :
            /\ cur.probes[k].oid = cur.last_oid
            /\ cur.probes[k].oid # cur.oid
  /\ (cur.path = "complex" /\ cur.status = "raised") =>
       /\ cur.exc = "AssertionError"
       /\ cur.probes = <<>>
  /\ (cur.path = "complex" /\ cur.status = "returned"
      /\ last_simple.set /\ last_simple.oid = cur.last_oid) =>
       cur.copies = last_simple.copies
  /\ (cur.path = "simple" /\ cur.status = "returned"
      /\ last_simple.set /\ last_simple.oid = cur.oid) =>
       cur.copies = last_simple.copies

C4_Witness ==
  /\ cur.call = "get_object_copies"
  /\ cur.complexity = "Complex"
  /\ cur.status = "returned"
  /\ last_simple.set
  /\ last_simple.oid = "last"
  /\ cur.copies >= 1
  /\ cur.copies < NumNodes
  /\ \A n \in Nodes : head["oid"][n] = "NotFound"

-----------------------------------------------------------------------------
(* The session-token test against the network, and the copies of its object *)

TestStart(object_size) ==
  [TestOff EXCEPT !.pc = "nodes_settlements", !.object_size = object_size]

ComplexityOf(object_size) == IF object_size = "simple" THEN "Simple" ELSE "Complex"

InitSession ==
  /\ head = [o \in Oids |-> AbsentEverywhere]
  /\ cur = Idle
  /\ last_with = Unset
  /\ last_simple = Unset
  /\ netmap_dict \in [Nodes -> KnownLocodes]
  /\ test \in {TestStart(size) : size \in {"simple", "complex"}}
  /\ sessions = [n \in Nodes |-> FALSE]
  /\ token = NoToken
  /\ now = 0
  /\ container = NoContainer
  /\ replies = <<>>

\* Line 71 has returned: oid is bound, wherever the test is or has ended.
OidWritten == test.oid = "oid"

\* The copies of the object are counted at any point once it is written.
count_copies ==
  /\ OidWritten
  /\ get_object_copies(ComplexityOf(test.object_size), test.oid)

NextSession ==
  \/ nodes_settlements
  \/ create_session_token
  \/ create_private_container
  \/ put_objects
  \/ put_object_oid_delete
  \/ granted_put
  \/ granted_delete
  \/ container_put
  \/ container_delete
  \/ noncontainer_put
  \/ noncontainer_delete
  \/ count_copies
  \/ simple_iteration
  \/ scan_return

SpecSession == InitSession /\ [][NextSession]_vars

Holders(oid) == {n \in Nodes : head[oid][n] = "Header"}

GrantedSteps == {"granted_put", "granted_delete"}

\* C1: with a valid token created against session_token_node, the PUT and the
\* DELETE at that node are allowed and those at container_node and at
\* noncontainer_node are denied with SessionNotFound, inside or outside the
\* placement set, for simple and complex objects: the test never fails.
C1_SessionScope ==
  /\ test.pc # "failed"
  /\ \A k \in 1..Len(replies) :
       LET r == replies[k] IN
         /\ r.step \in GrantedSteps =>
              /\ r.node = test.session_token_node
              /\ r.decision = "Allow"
         /\ r.step \notin GrantedSteps =>
              /\ r.node \in {test.container_node, test.noncontainer_node}
              /\ r.node # test.session_token_node
              /\ r.decision = SESSION_NOT_FOUND
         /\ r.decision = "Allow" <=> r.known
  /\ test.pc = "passed" =>
       /\ Len(replies) = 6
       /\ Holders("oid") = container.targets
       /\ Holders("oid_session") = container.targets
       /\ Holders("oid_delete") = {}

C1_Witness ==
  /\ test.pc = "passed"
  /\ test.object_size = "complex"
  /\ test.container_node \in container.targets
  /\ test.session_token_node \notin container.targets
  /\ test.noncontainer_node \notin container.targets
  /\ \E k \in 1..Len(replies) :
       replies[k].node = test.container_node /\ replies[k].decision = SESSION_NOT_FOUND
  /\ \E k \in 1..Len(replies) :
       replies[k].node = test.session_token_node /\ replies[k].decision = "Allow"

UniqueLocode ==
  Cardinality({n \in Nodes : netmap_dict[n] = test.un_locode}) = 1

\* C6: when exactly one node has the UN-LOCODE of the policy, the object
\* written to the container is held by that node and by no other (neither
\* session_token_node nor noncontainer_node), and its copy count is the
\* replication factor 1.
C6_Placement ==
  (OidWritten /\ UniqueLocode) =>
    /\ container.policy.rep = 1
    /\ container.targets = {test.container_node}
    /\ Holders("oid") = container.targets
    /\ test.session_token_node \notin Holders("oid")
    /\ test.noncontainer_node \notin Holders("oid")
    /\ cur.exc # "Exception"
    /\ (cur.call = "get_object_copies" /\ cur.status = "returned") =>
         cur.copies = container.policy.rep

C6_Witness ==
  /\ test.pc = "passed"
  /\ UniqueLocode
  /\ cur.call = "get_object_copies"
  /\ cur.status = "returned"
  /\ cur.copies = 1
  /\ test.container_node = NumNodes
  /\ Len(cur.probes) = NumNodes

-----------------------------------------------------------------------------
(* The placement-policy text, for UN-LOCODE values of every shape *)

InitPolicy ==
  /\ head = [o \in Oids |-> AbsentEverywhere]
  /\ cur = Idle
  /\ last_with = Unset
  /\ last_simple = Unset
  /\ netmap_dict \in {[n \in Nodes |-> u] : u \in BoundedLocodes \cup KnownLocodes}
  /\ test = TestStart("simple")
  /\ sessions = [n \in Nodes |-> FALSE]
  /\ token = NoToken
  /\ now = 0
  /\ container = NoContainer
  /\ replies = <<>>

NextPolicy ==
  \/ nodes_settlements
  \/ create_session_token
  \/ create_private_container

SpecPolicy == InitPolicy /\ [][NextPolicy]_vars

TokenStarts(s) ==
  {i \in 1..Len(s) : s[i] \notin Whitespace /\ (i = 1 \/ s[i - 1] \in Whitespace)}

\* The second maximal run of non-whitespace characters of s.
SecondToken(s) ==
  LET i == Ascending(TokenStarts(s))[2]
      j == CHOOSE e \in i..Len(s) :
             /\ \A k \in i..e : s[k] \notin Whitespace
             /\ (e = Len(s) \/ s[e + 1] \in Whitespace)
  IN SubSeq(s, i, j)

PolicyBuilt == test.pc = "put_objects"

\* C5: "RU LED" gives the group name SPB and any other UN-LOCODE its second
\* whitespace-separated token; in the text built, the group after REP ... IN
\* is the alias of SELECT ... AS and the group after FROM is the alias of
\* FILTER ... AS, and the filter compares with the UN-LOCODE itself.
C5_PolicyText ==
  /\ ~(test.pc = "error" /\ test.exc = "create_container")
  /\ (test.pc = "error" /\ test.exc = "IndexError") =>
       Cardinality(TokenStarts(test.un_locode)) < 2
  /\ PolicyBuilt =>
       LET p == ParsePolicy(test.placement_policy) IN
         /\ test.un_locode = RU_LED => test.locode = SPB
         /\ test.un_locode # RU_LED => test.locode = SecondToken(test.un_locode)
         /\ WellFormed(p)
         /\ p.rep_group = <<"LOC_">> \o test.locode \o <<"_PLACE">>
         /\ p.from_group = <<"LOC_">> \o test.locode
         /\ p.filter_attr = <<"UN-LOCODE">>
         /\ p.filter_value = test.un_locode
         /\ p.rep = 1 /\ p.cbf = 1 /\ p.select = 1
         /\ container.created /\ container.policy = p

C5_Witness ==
  /\ PolicyBuilt
  /\ test.un_locode = RU_LED
  /\ test.locode = SPB
  /\ ParsePolicy(test.placement_policy).rep_group = <<"LOC_", "S", "P", "B", "_PLACE">>

-----------------------------------------------------------------------------
(* The Session Authorization Guard under every request *)

InitGuard ==
  /\ head = [o \in Oids |-> AbsentEverywhere]
  /\ cur = Idle
  /\ last_with = Unset
  /\ last_simple = Unset
  /\ SystemOff

guard_frame == <<head, cur, last_with, last_simple, netmap_dict, test, container>>

\* A token is created against one node, for some operations, until `exp`.
CreateSessionToken(node, exp, ops) ==
  /\ ~token.issued
  /\ IssueToken(node, exp, ops)
  /\ UNCHANGED <<now, replies>>
  /\ UNCHANGED guard_frame

\* The token is made known to another node.
DistributeToken(node) ==
  /\ token.issued
  /\ ~sessions[node]
  /\ sessions' = [sessions EXCEPT ![node] = TRUE]
  /\ UNCHANGED <<token, now, replies>>
  /\ UNCHANGED guard_frame

Tick ==
  /\ now < MaxTime
  /\ now' = now + 1
  /\ UNCHANGED <<sessions, token, replies>>
  /\ UNCHANGED guard_frame

\* A request that presents the token to a node.
AuthorizeRequest(node, op) ==
  /\ token.issued
  /\ replies' = <<Request("request", node, op)>>
  /\ UNCHANGED <<sessions, token, now>>
  /\ UNCHANGED guard_frame

NextGuard ==
  \/ \E node \in Nodes, exp \in now..MaxTime, ops \in SUBSET Ops :
       CreateSessionToken(node, exp, ops)
  \/ \E node \in Nodes : DistributeToken(node)
  \/ Tick
  \/ \E node \in Nodes, op \in Ops : AuthorizeRequest(node, op)

SpecGuard == InitGuard /\ [][NextGuard]_vars

OutsideWindow(r) == r.time < token.nbf \/ r.time > token.exp

\* C7: the guard denies with Expired outside the validity window whatever
\* else holds; otherwise with WrongOperation for an operation outside the
\* token's set, whether or not the node knows the token; otherwise with
\* SessionNotFound at a node without a record of the token; and allows only
\* when none of the three holds.
C7_RuleOrder ==
  \A k \in 1..Len(replies) :
    LET r == replies[k] IN
      /\ OutsideWindow(r) => r.decision = "Expired"
      /\ (~OutsideWindow(r) /\ r.op \notin token.ops) => r.decision = "WrongOperation"
      /\ (~OutsideWindow(r) /\ r.op \in token.ops /\ ~r.known) =>
           r.decision = "SessionNotFound"
      /\ r.decision = "Allow" <=>
           (~OutsideWindow(r) /\ r.op \in token.ops /\ r.known)

C7_Witness ==
  /\ Len(replies) = 1
  /\ OutsideWindow(replies[1])
  /\ replies[1].op \notin token.ops
  /\ ~replies[1].known
  /\ replies[1].decision = "Expired"
  /\ \E n \in Nodes : sessions[n] /\ n # replies[1].node

====
